---- MODULE Spec2Model ----
(***************************************************************************)
(* The Salesforce login-event poll-and-index pipeline of aws/ec2-app:      *)
(* LoginEventStreamer (app.py), SalesforceClient (salesforce_client.py),   *)
(* OpenSearchClient (opensearch_client.py) and Config (config.py).         *)
(*                                                                         *)
(* Time is counted in ticks, TicksPerSecond ticks to the second, so that   *)
(* strftime's truncation to whole seconds is not the identity.             *)
(* datetime.now() and datetime.utcnow() read the same wall clock (they     *)
(* differ by the host's fixed UTC offset); the clock never goes backwards. *)
(* An absent value (Python None) is the empty sequence <<>>, a present     *)
(* value v is <<v>>.                                                       *)
(***************************************************************************)
EXTENDS Integers, Sequences, FiniteSets, TLC

\* ------------------------------------------------------------------ bounds

TicksPerSecond == 2
MaxEvents == 2
MaxCycles == 2
MaxBatch == 2
MaxCalls == 2
MaxDigits == 3
MaxEmailLen == 7
MaxFields == 2

\* ------------------------------------------------------- program constants

LookbackMinutes == 5
BackoffSeconds == 30
poll_interval_seconds == 60
TokenHours == 1
TokenMinutes == 45
opensearch_index == "salesforce-login-events"
MinDurationDays == 1
MaxDurationDays == 30

Seconds(n) == n * TicksPerSecond
Lookback == Seconds(LookbackMinutes * 60)
TokenLifetime == Seconds(TokenHours * 3600 + TokenMinutes * 60)

\* ------------------------------------------------------------- environment

\* The time one network request takes: less than a tick, or a tick.
Latencies == {0, 1}

\* How much longer than asked the poll-interval sleep can take (the host may
\* be suspended): nothing, or so long that the token cached at startup is at
\* its expiry when the sleep returns.
LongStall == TokenLifetime - Seconds(poll_interval_seconds)
Stalls == {0, LongStall}

\* The wall clock when the process is started: not on a whole second.
StartClock == Lookback + 1

\* The ids the upstream gives its records, in the order it creates them.
IdNames == <<"E1", "E2", "E3", "E4">>
Ids == {IdNames[i] : i \in 1..MaxEvents}

\* requests' Response.raise_for_status raises for 4xx and 5xx only.
RaiseForStatus(status) == status >= 400 /\ status < 600

\* Responses of the OAuth token endpoint. transport = the request raised
\* (timeout, connection error); expires_in = 0 stands for an absent field.
TokenStatuses == {200, 300, 400, 500}
ExpiresIns == {0, 7200}
TokenAnswers ==
    {[transport |-> TRUE, status |-> 0, json |-> FALSE, has_token |-> FALSE, expires_in |-> 0]}
    \cup {r \in [transport : {FALSE}, status : TokenStatuses, json : BOOLEAN,
                 has_token : BOOLEAN, expires_in : ExpiresIns] :
            /\ r.has_token => r.json
            /\ r.expires_in # 0 => r.has_token}

\* The answers of the token endpoint itself, which grants a token with a
\* 200 and refuses with a 400 or a 500, or no answer.
TokenResponses ==
    {r \in TokenAnswers : \/ r.transport
                          \/ /\ r.status \in {200, 400, 500}
                             /\ r.has_token => r.status = 200}

\* Responses of the SOQL query endpoint, or of what stands before it. The
\* body is not JSON ("none"), a JSON list as in Salesforce's error answers
\* ("list"), a JSON object without a records key ("object"), or the query
\* result with the records that match ("records"), which only a 200 answer
\* carries.
QueryStatuses == {200, 300, 500}
QueryBodies == {"none", "list", "object", "records"}
QueryAnswers ==
    {[transport |-> TRUE, status |-> 0, body |-> "none"]}
    \cup {r \in [transport : {FALSE}, status : QueryStatuses, body : QueryBodies] :
            /\ r.body = "records" => r.status = 200
            /\ r.status = 200 => r.body \in {"records", "none"}}

\* The answers of the poll loop's upstream: the query result, a server
\* error, or none.
QueryResponses ==
    {r \in QueryAnswers : \/ r.transport
                          \/ r.status = 500 /\ r.body = "none"
                          \/ r.body = "records"}

\* Responses of the bulk endpoint: status, whether the body parses as JSON,
\* and the top-level errors flag (absent counts as false).
BulkStatuses == {200, 201, 500}
BulkResponses ==
    {[transport |-> TRUE, status |-> 0, json |-> FALSE, errors |-> FALSE]}
    \cup {r \in [transport : {FALSE}, status : BulkStatuses, json : BOOLEAN,
                 errors : BOOLEAN] :
            /\ r.errors => r.json
            /\ r.status # 200 => (r.json /\ ~r.errors)}

\* Answers to HEAD /<index>: 200 when the index exists, 404 when it does
\* not, a server error, or none.
HeadStatuses(exists) == IF exists THEN {200, 500} ELSE {404, 500}
HeadResponses(exists) ==
    {[transport |-> TRUE, status |-> 0]}
    \cup [transport : {FALSE}, status : HeadStatuses(exists)]

\* Answers to PUT /<index>: created (200), refused by the engine (400, as
\* when another creator was first, or 500), or none.
PutStatuses == {200, 400, 500}
PutResponses ==
    {[transport |-> TRUE, status |-> 0]}
    \cup [transport : {FALSE}, status : PutStatuses]
NoPutResponse == CHOOSE r \in PutResponses : r.transport

\* Whether the index exists after a PUT answered by put was sent for an
\* index that did not.
IndexAfterPut(put) ==
    IF ~put.transport /\ put.status = 200 THEN {TRUE}
    ELSE IF ~put.transport /\ put.status = 500 THEN {FALSE}
    ELSE BOOLEAN

\* ---------------------------------------------------------------- helpers

\* datetime.strftime('%Y-%m-%dT%H:%M:%S.000Z'): the sub-second part is dropped.
strftime(t) == (t \div TicksPerSecond) * TicksPerSecond

SeqToSet(s) == {s[i] : i \in 1..Len(s)}

\* ------------------------------------------------------------------ Config

\* An environment variable is unset (<<>>) or set to a string, which can be
\* the empty one.
Settings(values) == {<<>>} \cup {<<v>> : v \in values}

\* The environments the process is started in.
Environments ==
    [OPENSEARCH_ENDPOINT : Settings({"", "search.example.com", "https://search.example.com"}),
     SECRETS_MANAGER_SECRET_ARN : Settings({"", "arn:secret"}),
     SALESFORCE_INSTANCE_URL : Settings({"", "https://sf.example.com"}),
     OPENSEARCH_INDEX : Settings({"", "logins"}),
     POLL_INTERVAL_SECONDS : Settings({"30", "0", "-5", "soon"}),
     AWS_REGION : Settings({""})]

\* What get_secret_value gives: the lookup raises ("error"), or SecretString
\* is not JSON ("text"), a JSON list ("list"), or a JSON object that has or
\* lacks each of the three keys, with an empty or a non-empty value.
SecretValues == {<<>>, <<"">>, <<"v">>}
Secrets ==
    {[kind |-> k, client_id |-> <<>>, username |-> <<>>, private_key |-> <<>>] :
        k \in {"error", "text", "list"}}
    \cup [kind : {"object"}, client_id : SecretValues, username : SecretValues,
          private_key : SecretValues]

\* os.getenv(name, default)
Getenv(env, name, default) == IF env[name] = <<>> THEN default ELSE env[name]

\* int(s) for the strings of the environments above; <<>> when it raises
\* ValueError.
IntOf(s) ==
    IF s = "60" THEN <<60>> ELSE IF s = "30" THEN <<30>>
    ELSE IF s = "0" THEN <<0>> ELSE IF s = "-5" THEN <<-5>> ELSE <<>>

\* Python's truth value of an optional string: None and '' are false.
Truthy(v) == v # <<>> /\ v # <<"">>

\* _validate_required_config: the names of the variables that are missing.
MissingVars(endpoint, arn, url) ==
    {n \in {"OPENSEARCH_ENDPOINT", "SECRETS_MANAGER_SECRET_ARN", "SALESFORCE_INSTANCE_URL"} :
        ~Truthy(IF n = "OPENSEARCH_ENDPOINT" THEN endpoint
                ELSE IF n = "SECRETS_MANAGER_SECRET_ARN" THEN arn ELSE url)}

\* _load_salesforce_credentials, lines 46-57: whether the try block raises.
\* With an empty region name boto3 takes the region from elsewhere or fails.
CredentialsRaise(region, sec, regionFound) ==
    \/ (region = "" /\ ~regionFound)
    \/ sec.kind # "object"
    \/ sec.client_id = <<>>
    \/ sec.username = <<>>
    \/ sec.private_key = <<>>

\* How many times Config.__init__ calls get_secret_value (line 48): once,
\* when line 18, _validate_required_config and boto3.client have not raised
\* before.
SecretLookups(env, regionFound) ==
    IF \/ IntOf(Getenv(env, "POLL_INTERVAL_SECONDS", <<"60">>)[1]) = <<>>
       \/ MissingVars(env.OPENSEARCH_ENDPOINT, env.SECRETS_MANAGER_SECRET_ARN,
                      env.SALESFORCE_INSTANCE_URL) # {}
       \/ (Getenv(env, "AWS_REGION", <<"us-west-1">>)[1] = "" /\ ~regionFound)
    THEN 0 ELSE 1

ConfigError == [raised |-> TRUE, error |-> "ValueError", config |-> <<>>]

\* Config.__init__: the object it builds, or the exception it raises.
Config(env, sec, regionFound) ==
    LET aws_region == Getenv(env, "AWS_REGION", <<"us-west-1">>)[1]
        arn == env.SECRETS_MANAGER_SECRET_ARN
        endpoint == env.OPENSEARCH_ENDPOINT
        index == Getenv(env, "OPENSEARCH_INDEX", <<"salesforce-login-events">>)[1]
        poll == IntOf(Getenv(env, "POLL_INTERVAL_SECONDS", <<"60">>)[1])
        url == env.SALESFORCE_INSTANCE_URL
    IN  IF poll = <<>> THEN ConfigError
        ELSE IF MissingVars(endpoint, arn, url) # {} THEN ConfigError
        ELSE IF ~Truthy(arn) THEN ConfigError
        ELSE IF CredentialsRaise(aws_region, sec, regionFound) THEN ConfigError
        ELSE [raised |-> FALSE, error |-> "",
              config |-> <<[aws_region |-> aws_region,
                            secrets_manager_secret_arn |-> arn[1],
                            opensearch_endpoint |-> endpoint[1],
                            opensearch_index |-> index,
                            poll_interval_seconds |-> poll[1],
                            salesforce_instance_url |-> url[1],
                            salesforce_client_id |-> sec.client_id[1],
                            salesforce_username |-> sec.username[1],
                            salesforce_private_key |-> sec.private_key[1]]>>]

\* The environment and the secret of a working installation.
UsualEnviron ==
    [OPENSEARCH_ENDPOINT |-> <<"https://search.example.com">>,
     SECRETS_MANAGER_SECRET_ARN |-> <<"arn:secret">>,
     SALESFORCE_INSTANCE_URL |-> <<"https://sf.example.com">>,
     OPENSEARCH_INDEX |-> <<>>,
     POLL_INTERVAL_SECONDS |-> <<>>,
     AWS_REGION |-> <<>>]

UsualSecret ==
    [kind |-> "object", client_id |-> <<"v">>, username |-> <<"v">>,
     private_key |-> <<"v">>]

\* ------------------------------------------------------- SalesforceClient

\* Line 59 trusting the provider's expires_in when the answer carries one.
TokenExpiryFromResponse(now, resp) ==
    now + (IF resp.expires_in # 0 THEN Seconds(resp.expires_in) ELSE TokenLifetime)

\* authenticate, line 59: the expiry stored with a new token.
TokenExpiry(now, resp) == now + TokenLifetime

\* authenticate with an except clause that forgets the cached token and
\* leaves its expiry.
AuthenticateForgetting(tok, exp, now, resp, fresh) ==
    IF resp.transport \/ (resp.status # 200 /\ RaiseForStatus(resp.status))
       \/ ~resp.json \/ ~resp.has_token
    THEN [raised |-> TRUE, access_token |-> <<>>, token_expires_at |-> exp]
    ELSE [raised |-> FALSE, access_token |-> <<fresh>>,
          token_expires_at |-> <<TokenExpiry(now, resp)>>]

\* authenticate: the exchange answered resp and control is back at time now;
\* fresh is the access_token a successful answer carries. Gives the cached
\* token afterwards and whether the call raised.
authenticate(tok, exp, now, resp, fresh) ==
    IF resp.transport
    THEN [raised |-> TRUE, access_token |-> tok, token_expires_at |-> exp]
    ELSE IF resp.status # 200 /\ RaiseForStatus(resp.status)
    THEN [raised |-> TRUE, access_token |-> tok, token_expires_at |-> exp]
    ELSE IF ~resp.json
    THEN [raised |-> TRUE, access_token |-> tok, token_expires_at |-> exp]
    ELSE IF ~resp.has_token
    THEN [raised |-> TRUE, access_token |-> tok, token_expires_at |-> exp]
    ELSE [raised |-> FALSE, access_token |-> <<fresh>>,
          token_expires_at |-> <<TokenExpiry(now, resp)>>]

\* Line 71 with <= for <: the token still counts as valid at its expiry.
TokenValidThroughExpiry(tok, exp, now) ==
    tok # <<>> /\ exp # <<>> /\ now <= exp[1]

\* is_token_valid, lines 67-71.
is_token_valid(tok, exp, now) ==
    tok # <<>> /\ exp # <<>> /\ now < exp[1]

\* Lines 75-76 looking at the token only: a token that is there is used,
\* whatever its expiry.
EnsureWhenAbsent(tok, exp, now, resp, dA, fresh) ==
    IF tok = <<>>
    THEN [sent |-> 1, took |-> dA] @@ authenticate(tok, exp, now + dA, resp, fresh)
    ELSE [sent |-> 0, took |-> 0, raised |-> FALSE,
          access_token |-> tok, token_expires_at |-> exp]

\* ensure_authenticated at time now; the exchange, if one is made, takes dA.
ensure_authenticated(tok, exp, now, resp, dA, fresh) ==
    IF ~is_token_valid(tok, exp, now)
    THEN [sent |-> 1, took |-> dA] @@ authenticate(tok, exp, now + dA, resp, fresh)
    ELSE [sent |-> 0, took |-> 0, raised |-> FALSE,
          access_token |-> tok, token_expires_at |-> exp]

\* The WHERE clause of the query, as the upstream evaluates it on a record.
SoqlMatches(r, start_time, end_time) ==
    r.LoginTime >= start_time /\ r.LoginTime < end_time

\* ORDER BY LoginTime ASC: every ordering of S with non-decreasing LoginTime
\* (the order of records with equal LoginTime is the upstream's choice).
OrderByLoginTime(S) ==
    {s \in [1..Cardinality(S) -> S] :
        /\ \A i, j \in 1..Cardinality(S) : i # j => s[i] # s[j]
        /\ \A i, j \in 1..Cardinality(S) : i < j => s[i].LoginTime <= s[j].LoginTime}

\* get_login_events from the query GET on: resp is the answer, records the
\* matching records in the order the upstream returns them.
QueryResult(resp, records) ==
    IF resp.transport
    THEN [raised |-> TRUE, events |-> <<>>]
    ELSE IF resp.status # 200 /\ RaiseForStatus(resp.status)
    THEN [raised |-> TRUE, events |-> <<>>]
    ELSE IF resp.body = "none"
    THEN [raised |-> TRUE, events |-> <<>>]
    ELSE IF resp.body = "list"
    THEN [raised |-> TRUE, events |-> <<>>]
    ELSE IF resp.body = "object"
    THEN [raised |-> FALSE, events |-> <<>>]
    ELSE [raised |-> FALSE, events |-> records]

\* -------------------------------------------------------- OpenSearchClient

\* str.startswith(('http://', 'https://')) on the endpoints of Environments.
HasScheme(endpoint) == endpoint \in {"https://search.example.com"}

\* _validate_config: raises ValueError for an empty endpoint or region, and
\* puts https:// before an endpoint that has no scheme.
validate_config(cfg) ==
    IF cfg.opensearch_endpoint = "" \/ cfg.aws_region = ""
    THEN [raised |-> TRUE, config |-> cfg]
    ELSE [raised |-> FALSE,
          config |-> [cfg EXCEPT !.opensearch_endpoint =
                         IF HasScheme(@) THEN @ ELSE "https://" \o @]]

\* _create_index_if_not_exists with line 69 as status_code != 200.
CreateIndexUnlessFound(head, put) ==
    IF head.transport
    THEN [requests |-> <<"HEAD">>, raised |-> TRUE, log |-> "none"]
    ELSE IF head.status # 200
    THEN [requests |-> <<"HEAD", "PUT">>, raised |-> put.transport,
          log |-> IF put.transport THEN "none"
                  ELSE IF put.status = 200 THEN "created" ELSE "error"]
    ELSE [requests |-> <<"HEAD">>, raised |-> FALSE, log |-> "none"]

\* _create_index_if_not_exists: the requests it sends, whether it raises
\* (a request that gets no answer re-raises, line 63), and what it logs
\* about the PUT.
create_index_if_not_exists(head, put) ==
    IF head.transport
    THEN [requests |-> <<"HEAD">>, raised |-> TRUE, log |-> "none"]
    ELSE IF head.status = 404
    THEN [requests |-> <<"HEAD", "PUT">>, raised |-> put.transport,
          log |-> IF put.transport THEN "none"
                  ELSE IF put.status = 200 THEN "created" ELSE "error"]
    ELSE [requests |-> <<"HEAD">>, raised |-> FALSE, log |-> "none"]

\* OpenSearchClient.__init__, lines 17-18.
OpenSearchClient(cfg, head, put) ==
    LET v == validate_config(cfg)
        c == create_index_if_not_exists(head, put)
    IN  IF v.raised
        THEN [raised |-> TRUE, config |-> v.config, requests |-> <<>>,
              log |-> "none"]
        ELSE [raised |-> c.raised, config |-> v.config, requests |-> c.requests,
              log |-> c.log]

NL == [tok |-> "nl"]

\* json.dumps(item): one line of JSON, never holding a newline.
JsonDumps(item) == [tok |-> "json", obj |-> item]

\* '\n'.join(lines)
RECURSIVE Join(_)
Join(lines) ==
    IF Len(lines) = 0 THEN <<>>
    ELSE IF Len(lines) = 1 THEN <<lines[1]>>
    ELSE <<lines[1], NL>> \o Join(Tail(lines))

\* The loop body, line 98: the event with a fresh @timestamp.
Stamp(event, now) == ("@timestamp" :> now) @@ event

\* Lines 100-105 without the _id: the engine names the document itself.
ActionLineWithoutId(event) ==
    [index |-> [_index |-> opensearch_index, _id |-> <<>>]]

\* The action descriptor of an event, lines 100-105.
ActionLine(event) ==
    [index |-> [_index |-> opensearch_index, _id |-> <<event.Id>>]]

\* A batch is a list of dicts: events[i] is what the i-th dict holds and
\* objs[i] which dict it is, named by the place of its first occurrence (the
\* same dict can be in the list more than once). These are the ways a list
\* holding events can be made up of dicts.
Identities(events) ==
    {o \in [1..Len(events) -> 1..Len(events)] :
        \A i \in 1..Len(events) :
            o[i] <= i /\ o[o[i]] = o[i] /\ events[o[i]] = events[i]}

\* The dicts of a parsed JSON answer are all different.
Distinct(events) == [i \in 1..Len(events) |-> i]

\* The loop of lines 97-106 writes the @timestamp into the dict itself, an
\* iteration dS after the one before, from time now on: the @timestamp a
\* dict ends up with is that of its last occurrence in the list.
StampTime(objs, i, now, dS) ==
    LET last == CHOOSE j \in 1..Len(objs) :
                    objs[j] = objs[i] /\ \A k \in (j + 1)..Len(objs) : objs[k] # objs[i]
    IN  now + dS * (last - 1)

\* bulk_data as line 110 serializes it: for every event its action
\* descriptor and the dict itself.
BulkData(events, objs, now, dS) ==
    [j \in 1..(2 * Len(events)) |->
        IF j % 2 = 1
        THEN ActionLine(events[(j + 1) \div 2])
        ELSE Stamp(events[j \div 2], StampTime(objs, j \div 2, now, dS))]

\* Line 110 without the newline appended after the join.
BulkJsonUnterminated(bulk_data) ==
    Join([i \in 1..Len(bulk_data) |-> JsonDumps(bulk_data[i])])

\* bulk_json, line 110.
BulkJson(bulk_data) ==
    Join([i \in 1..Len(bulk_data) |-> JsonDumps(bulk_data[i])]) \o <<NL>>

\* Lines 114-126 without the look at the errors flag (lines 116-118).
BulkResultIgnoringErrors(resp) ==
    IF resp.transport THEN FALSE
    ELSE IF resp.status = 200 THEN resp.json ELSE FALSE

\* Lines 114-126: what bulk_index_events returns for a response.
BulkResult(resp) ==
    IF resp.transport THEN FALSE
    ELSE IF resp.status = 200
         THEN IF ~resp.json THEN FALSE
              ELSE IF resp.errors THEN FALSE ELSE TRUE
         ELSE FALSE

\* bulk_index_events without the early return of lines 93-94.
BulkIndexUnguarded(events, objs, now, dS, resp) ==
    [requests |-> <<BulkJson(BulkData(events, objs, now, dS))>>,
     result |-> BulkResult(resp)]

\* bulk_index_events: the requests it sends (their bodies) and its result.
bulk_index_events(events, objs, now, dS, resp) ==
    IF events = <<>>
    THEN [requests |-> <<>>, result |-> TRUE]
    ELSE [requests |-> <<BulkJson(BulkData(events, objs, now, dS))>>,
          result |-> BulkResult(resp)]

\* ------------------------------------------------- the search engine's side

\* The body split at its newlines, as str.split('\n') does.
RECURSIVE SplitLines(_)
SplitLines(body) ==
    IF body = <<>> THEN << <<>> >>
    ELSE LET rest == SplitLines(Tail(body))
         IN  IF Head(body).tok = "nl"
             THEN << <<>> >> \o rest
             ELSE << <<Head(body)>> \o rest[1] >> \o Tail(rest)

\* The body's JSON lines, in order.
JsonLines(body) == SelectSeq(body, LAMBDA t : t.tok = "json")

\* One index operation: a document with the given _id replaces the one
\* stored under that _id; without an _id the engine makes up a new one.
IndexOp(index, action, doc) ==
    IF action.index._id = <<>>
    THEN index \cup {[_id |-> [auto |-> Cardinality(index) + 1, key |-> ""],
                      _source |-> doc]}
    ELSE LET id == [auto |-> 0, key |-> action.index._id[1]]
         IN  {d \in index : d._id # id} \cup {[_id |-> id, _source |-> doc]}

\* The engine carries out the items of a bulk body in order; applied is the
\* set of item numbers that succeed.
RECURSIVE ApplyBulk(_, _, _, _)
ApplyBulk(index, lines, i, applied) ==
    IF Len(lines) < 2 THEN index
    ELSE ApplyBulk(IF i \in applied
                   THEN IndexOp(index, lines[1].obj, lines[2].obj)
                   ELSE index,
                   SubSeq(lines, 3, Len(lines)), i + 1, applied)

\* What the engine can have done with a bulk request of k items when the
\* client sees resp: a 2xx answer tells through its errors flag whether every
\* item succeeded, a 5xx answer means nothing was done, and when no answer
\* arrives the request was carried out in full or not at all.
AppliedSets(k, resp) ==
    IF ~resp.transport /\ resp.status < 300 /\ resp.json
    THEN IF resp.errors THEN (SUBSET (1..k)) \ {1..k} ELSE {1..k}
    ELSE IF ~resp.transport /\ resp.status >= 300
    THEN {{}}
    ELSE IF ~resp.transport
    THEN {1..k}
    ELSE {{}, 1..k}

\* ------------------------------------------------------------------- state

VARIABLES
    clock,              \* the wall clock, in ticks
    pc,                 \* where the process is: "startup", "os_test", "cycle",
                        \* "sleep", "backoff", "exited"; "unit" before and
                        \* "done" or "ensured" after a method called directly
    exit_code,          \* <<>> while running
    cycles,             \* process_events calls of this run
    last_poll_time,     \* LoginEventStreamer.last_poll_time
    access_token,       \* SalesforceClient.access_token
    token_expires_at,   \* SalesforceClient.token_expires_at
    authRequests,       \* token POSTs sent so far
    sfRecords,          \* the LoginHistory records of the upstream
    osIndex,            \* the documents of the search index
    cycle,              \* what the latest process_events call did
    coverEnd,           \* where the windows of this run's completed cycles end
    lastEnsure,         \* the latest ensure_authenticated call
    lastAuth,           \* the successful authenticate of the latest step, if
                        \* it made one
    lastBulk,           \* the latest direct bulk_index_events call
    lastCall,           \* the latest direct call of another method
    checks,             \* how the startup connectivity checks went
    environ,            \* os.environ
    secretStore,        \* what Secrets Manager answers for the secret
    config,             \* the Config object, <<>> before it is loaded
    indexExists,        \* whether the search engine has the index
    latest,             \* per event id, the @timestamp of its latest
                        \* index operation the engine carried out
    fetchCount,         \* per event id, how many fetches have returned it
    acked,              \* ids of the events of a batch reported successful
    argument,           \* the argument a validator of setup_tools is called
                        \* with, <<>> where none is
    validated,          \* what the validator did with it, <<>> before
    secretReads,        \* get_secret_value calls of this process
    ops,                \* what the latest step of the process did, in the
                        \* order it did it: the requests it sent and when
                        \* each was sent and answered; kept for a process
                        \* that is followed from its start, <<>> otherwise
    callers             \* the threads calling ensure_authenticated on the
                        \* one client at once: where each is in the method
                        \* and what its validity check read; <<>> where the
                        \* client has one caller

vars == <<clock, pc, exit_code, cycles, last_poll_time, access_token,
          token_expires_at, authRequests, sfRecords, osIndex, cycle,
          coverEnd, lastEnsure, lastAuth, lastBulk, latest, fetchCount, acked,
          lastCall, checks, environ, secretStore, config, indexExists,
          argument, validated, secretReads, ops, callers>>

\* What the process is configured from and with, and the index it writes
\* to; and the validators' argument and result, which are not the
\* streamer's.
setup == <<environ, secretStore, config, indexExists, argument, validated,
           secretReads, callers>>

\* No validator is being called.
NotValidating == argument = <<>> /\ validated = <<>>

\* The client has one caller, as in app.py.
SingleCaller == callers = <<>>

upstream == <<sfRecords, osIndex, latest, fetchCount, acked>>

\* What lastCall keeps of a direct call: the answer to the request the
\* method sent, how many requests it sent, whether it raised, the cached
\* token before the call, and for a fetch how many records it returned and
\* how many matched.
Called(method, resp, requests, raised, returned, matching) ==
    <<[method |-> method, transport |-> resp.transport, status |-> resp.status,
       requests |-> requests, raised |-> raised,
       tok |-> access_token, exp |-> token_expires_at,
       returned |-> returned, matching |-> matching]>>

NoCycle ==
    [outcome |-> "none", end_time |-> 0, wmBefore |-> 0, sf_start |-> 0,
     sf_end |-> 0, coverBefore |-> 0, nEvents |-> 0, queries |-> 0,
     bulkRequests |-> 0, finish |-> 0, retryOf |-> <<>>]

NoTokenResponse == CHOOSE r \in TokenResponses : r.transport
NoQueryResponse == CHOOSE r \in QueryResponses : r.transport
NoBulkResponse == CHOOSE r \in BulkResponses : r.transport

\* Line 31 with the lookback added instead of subtracted.
InitialWatermarkAhead(now) == now + Lookback

\* Line 31 without the lookback: the watermark starts at the construction.
InitialWatermarkNow(now) == now

\* LoginEventStreamer.__init__, line 31.
InitialWatermark(now) == now - Lookback

\* The state a newly constructed LoginEventStreamer is in at time now.
Constructed(now) ==
    /\ last_poll_time = InitialWatermark(now)
    /\ cycles = 0
    /\ cycle = NoCycle
    /\ coverEnd = strftime(InitialWatermark(now))
    /\ lastEnsure = <<>>
    /\ lastAuth = <<>>
    /\ lastBulk = <<>>
    /\ lastCall = <<>>
    /\ checks = [sf |-> "none", os |-> "none"]

\* The process is not followed from its start: ops keeps nothing.
Untraced == ops = <<>>

\* A working installation whose Config has been loaded.
Configured ==
    /\ environ = UsualEnviron
    /\ secretStore = UsualSecret
    /\ config = Config(UsualEnviron, UsualSecret, TRUE).config
    /\ secretReads = 1

\* A working installation whose index exists.
Installed ==
    /\ Configured
    /\ indexExists = TRUE

InitAt(where) ==
    /\ clock = StartClock
    /\ pc = where
    /\ exit_code = <<>>
    /\ access_token = <<>>
    /\ token_expires_at = <<>>
    /\ authRequests = 0
    /\ sfRecords = {}
    /\ osIndex = {}
    /\ latest = [id \in Ids |-> <<>>]
    /\ fetchCount = [id \in Ids |-> 0]
    /\ acked = {}
    /\ Installed
    /\ NotValidating
    /\ SingleCaller
    /\ Constructed(clock)
    /\ Untraced

Init == InitAt("startup")

\* ------------------------------------------------------------ environment

\* A user logs in: the upstream gets a new LoginHistory record.
Login ==
    /\ pc \in {"startup", "sleep", "backoff"}
    /\ cycles < MaxCycles
    /\ Cardinality(sfRecords) < MaxEvents
    /\ sfRecords' = sfRecords \cup {[Id |-> IdNames[Cardinality(sfRecords) + 1],
                                     LoginTime |-> clock]}
    /\ lastAuth' = <<>>
    /\ UNCHANGED ops
    /\ UNCHANGED <<clock, pc, exit_code, cycles, last_poll_time,
                   access_token, token_expires_at, authRequests, osIndex, cycle,
                   coverEnd, lastEnsure, lastBulk, latest, fetchCount, acked,
                   lastCall, checks>>
    /\ UNCHANGED setup

\* ------------------------------------------------------ LoginEventStreamer

\* Line 86 storing the time the cycle finished instead of end_time.
WatermarkAtFinish(raised, start_time, end_time, now) ==
    IF raised THEN start_time ELSE now

\* process_events without line 86.
WatermarkKept(raised, start_time, end_time, now) == start_time

\* Line 86 moved into a finally clause: the watermark advances on every path.
WatermarkAlways(raised, start_time, end_time, now) == end_time

\* process_events, line 86 and the exception path: the watermark the call
\* leaves behind.
WatermarkAfter(raised, start_time, end_time, now) ==
    IF raised THEN start_time ELSE end_time

\* The engine's record of the latest index operation per event id.
RECURSIVE LatestAfter(_, _, _, _, _, _, _)
LatestAfter(l, events, objs, now, dS, i, applied) ==
    IF i > Len(events) THEN l
    ELSE LatestAfter(IF i \in applied
                     THEN [l EXCEPT ![events[i].Id] = <<StampTime(objs, i, now, dS)>>]
                     ELSE l,
                     events, objs, now, dS, i + 1, applied)

Span(events, dS) == IF events = <<>> THEN 0 ELSE dS * (Len(events) - 1)

\* One bulk_index_events call on events at time now: the stamping loop takes
\* dS per event; resp is the answer and applied the items the engine carried
\* out.
IndexBatch(events, objs, now, dS, resp, applied) ==
    LET b == bulk_index_events(events, objs, now, dS, resp)
    IN  /\ IF b.requests = <<>>
           THEN UNCHANGED <<osIndex, latest>>
           ELSE /\ osIndex' = ApplyBulk(osIndex, JsonLines(b.requests[1]), 1, applied)
                /\ latest' = LatestAfter(latest, events, objs, now, dS, 1, applied)
        /\ acked' = acked \cup (IF b.result THEN {e.Id : e \in SeqToSet(events)} ELSE {})

\* How many ensure_authenticated calls have been made.
EnsureCalls == IF lastEnsure = <<>> THEN 0 ELSE lastEnsure[1].nth

\* What an ensure_authenticated call that went as ens leaves behind; aresp
\* is the answer to the token exchange, if it made one.
Ensured(ens, aresp) ==
    /\ access_token' = ens.access_token
    /\ token_expires_at' = ens.token_expires_at
    /\ authRequests' = authRequests + ens.sent
    /\ lastEnsure' = <<[nth |-> EnsureCalls + 1,
                        tok |-> access_token, exp |-> token_expires_at,
                        now |-> clock, sent |-> ens.sent, raised |-> ens.raised,
                        after |-> ens.access_token]>>
    /\ lastAuth' = IF ens.sent = 1 /\ ~ens.raised
                   THEN <<[time |-> clock + ens.took, token |-> authRequests + 1,
                           expires_in |-> aresp.expires_in]>>
                   ELSE <<>>

\* The call left process_events by an exception.
Raised(c) == c.outcome \in {"auth_failed", "query_failed"}

\* One thing the process did: what, when it began (the request was sent)
\* and when it was over (the answer was there).
Op(name, sent, done) == [op |-> name, sent |-> sent, done |-> done]

\* What ops becomes by a step that did done: a process is followed from
\* its start when ops has __main__'s entry, and every step it takes adds to
\* what is kept.
Traced(done) == IF ops = <<>> THEN <<>> ELSE done

\* process_events with the bulk request sent before the query.
OperationsBulkFirst(now, ens, dQ, raised, posts, span) ==
    <<Op("token_check", now, now)>>
    \o (IF ens.sent = 1 THEN <<Op("token_post", now, now + ens.took)>> ELSE <<>>)
    \o (IF posts = 1
        THEN <<Op("bulk_post", now + ens.took, now + ens.took + span)>> ELSE <<>>)
    \o (IF ens.raised THEN <<>>
        ELSE <<Op("query_get", now + ens.took + span, now + ens.took + span + dQ)>>)
    \o (IF raised THEN <<>>
        ELSE <<Op("watermark", now + ens.took + span + dQ,
                  now + ens.took + span + dQ)>>)

\* process_events, lines 74-86, with get_login_events, lines 80 and 95:
\* what one call does, in the order of its statements. Each request
\* function returns before the next statement is run.
Operations(now, ens, dQ, raised, posts, span) ==
    <<Op("token_check", now, now)>>
    \o (IF ens.sent = 1 THEN <<Op("token_post", now, now + ens.took)>> ELSE <<>>)
    \o (IF ens.raised THEN <<>>
        ELSE <<Op("query_get", now + ens.took, now + ens.took + dQ)>>)
    \o (IF posts = 1
        THEN <<Op("bulk_post", now + ens.took + dQ, now + ens.took + dQ + span)>>
        ELSE <<>>)
    \o (IF raised THEN <<>>
        ELSE <<Op("watermark", now + ens.took + dQ + span,
                  now + ens.took + dQ + span)>>)

\* process_events, whole: every way one call can go from the current state.
Cycle ==
    LET end_time == clock
        start_time == last_poll_time
        sf_start == strftime(start_time)
        sf_end == strftime(end_time)
        valid == is_token_valid(access_token, token_expires_at, clock)
    IN
    \E aresp \in IF valid THEN {NoTokenResponse} ELSE TokenResponses,
       dA \in IF valid THEN {0} ELSE Latencies :
    LET ens == ensure_authenticated(access_token, token_expires_at, clock,
                                    aresp, dA, authRequests + 1)
        t1 == clock + ens.took
    IN
    \E qresp \in IF ens.raised THEN {NoQueryResponse} ELSE QueryResponses,
       dQ \in IF ens.raised THEN {0} ELSE Latencies :
    \E records \in IF ens.raised \/ QueryResult(qresp, <<>>).raised
                   THEN {<<>>}
                   ELSE OrderByLoginTime({r \in sfRecords : SoqlMatches(r, sf_start, sf_end)}) :
    LET q == IF ens.raised THEN [raised |-> TRUE, events |-> <<>>]
             ELSE QueryResult(qresp, records)
        raised == ens.raised \/ q.raised
        events == q.events
        t2 == t1 + dQ
        indexing == ~raised /\ events # <<>>
    IN
    \E bresp \in IF indexing THEN BulkResponses ELSE {NoBulkResponse},
       dS \in IF indexing /\ Len(events) > 1 THEN Latencies ELSE {0} :
    \E applied \in IF indexing THEN AppliedSets(Len(events), bresp) ELSE {{}} :
    LET objs == Distinct(events)
        result == bulk_index_events(events, objs, t2, dS, bresp).result
        t3 == t2 + (IF indexing THEN Span(events, dS) ELSE 0)
    IN
        /\ clock' = t3
        /\ Ensured(ens, aresp)
        /\ IF indexing
           THEN IndexBatch(events, objs, t2, dS, bresp, applied)
           ELSE UNCHANGED <<osIndex, latest, acked>>
        /\ fetchCount' = [id \in Ids |->
              fetchCount[id] + Cardinality({i \in 1..Len(events) : events[i].Id = id})]
        /\ last_poll_time' = WatermarkAfter(raised, start_time, end_time, t3)
        /\ coverEnd' = IF raised THEN coverEnd ELSE sf_end
        /\ cycle' = [outcome |-> IF ens.raised THEN "auth_failed"
                                 ELSE IF q.raised THEN "query_failed"
                                 ELSE IF events = <<>> THEN "empty"
                                 ELSE IF result THEN "indexed" ELSE "index_failed",
                     end_time |-> end_time, wmBefore |-> start_time,
                     sf_start |-> sf_start, sf_end |-> sf_end,
                     coverBefore |-> coverEnd, nEvents |-> Len(events),
                     queries |-> IF ens.raised THEN 0 ELSE 1,
                     bulkRequests |->
                         IF indexing
                         THEN Len(bulk_index_events(events, objs, t2, dS,
                                                        bresp).requests)
                         ELSE 0,
                     finish |-> t3,
                     retryOf |-> IF Raised(cycle)
                                 THEN <<[outcome |-> cycle.outcome,
                                         sf_start |-> cycle.sf_start,
                                         finish |-> cycle.finish]>>
                                 ELSE <<>>]
        /\ ops' = Traced(Operations(clock, ens, dQ, raised, cycle'.bulkRequests,
                                    t3 - t2))
        /\ lastCall' = IF pc = "unit"
                       THEN Called("process_events", bresp,
                                   IF indexing THEN 1 ELSE 0, raised, Len(events), 0)
                       ELSE lastCall
        /\ UNCHANGED <<sfRecords, lastBulk, checks>>
        /\ UNCHANGED setup

\* SalesforceClient.test_connection: one authenticate call; gives whether it
\* went through.
TestConnection(ok) ==
    \E resp \in TokenResponses, dA \in Latencies :
       LET a == authenticate(access_token, token_expires_at, clock + dA, resp,
                             authRequests + 1)
       IN  /\ ok = ~a.raised
           /\ clock' = clock + dA
           /\ ops' = Traced(<<Op("token_post", clock, clock + dA)>>)
           /\ access_token' = a.access_token
           /\ token_expires_at' = a.token_expires_at
           /\ authRequests' = authRequests + 1
           /\ lastAuth' = IF a.raised THEN <<>>
                          ELSE <<[time |-> clock + dA, token |-> authRequests + 1,
                                  expires_in |-> resp.expires_in]>>

\* __main__ going on to run whatever the constructor did.
FatalIgnored(raised) == [pc |-> "startup", exit_code |-> <<>>]

\* __main__, lines 89-99: an exception of LoginEventStreamer() (re-raised at
\* line 34) is a ValueError or another Exception, and both clauses end the
\* process by sys.exit(1); otherwise run is called.
Fatal(raised) ==
    IF raised THEN [pc |-> "exited", exit_code |-> <<1>>]
    ELSE [pc |-> "startup", exit_code |-> <<>>]

\* __main__ up to the call of run: LoginEventStreamer.__init__ builds the
\* Config from the environment and the secret, the SalesforceClient (which
\* only stores it) and the OpenSearchClient, and sets the watermark.
Main ==
    /\ pc = "main"
    /\ \E regionFound \in BOOLEAN, head \in HeadResponses(indexExists) :
       \E put \in IF ~head.transport /\ head.status = 404
                   THEN PutResponses ELSE {NoPutResponse} :
       LET c == Config(environ, secretStore, regionFound)
           o == IF c.raised
                THEN [raised |-> TRUE, config |-> <<>>, requests |-> <<>>]
                ELSE LET i == OpenSearchClient(c.config[1], head, put)
                     IN  [raised |-> i.raised, config |-> <<i.config>>,
                          requests |-> i.requests]
       IN  \E after \in IF Len(o.requests) = 2 THEN IndexAfterPut(put)
                         ELSE {indexExists} :
           /\ config' = o.config
           /\ indexExists' = after
           /\ pc' = Fatal(o.raised).pc
           /\ exit_code' = Fatal(o.raised).exit_code
           /\ last_poll_time' = IF o.raised THEN last_poll_time
                                 ELSE InitialWatermark(clock)
           /\ coverEnd' = IF o.raised THEN coverEnd
                           ELSE strftime(InitialWatermark(clock))
           /\ secretReads' = secretReads + SecretLookups(environ, regionFound)
           /\ ops' = Traced(<<Op("__init__", clock, clock)>>
                            \o (IF SecretLookups(environ, regionFound) = 1
                                THEN <<Op("secret_read", clock, clock)>>
                                ELSE <<>>)
                            \o [i \in 1..Len(o.requests) |->
                                  Op(o.requests[i], clock, clock)])
    /\ lastAuth' = <<>>
    /\ UNCHANGED <<clock, cycles, access_token, token_expires_at, authRequests,
                   cycle, lastEnsure, lastBulk, lastCall, checks, environ,
                   secretStore, argument, validated, callers>>
    /\ UNCHANGED upstream

\* Lines 43-49 with the result of a check logged and not acted on.
CheckGateOpen(ok, then) == [pc |-> then, exit_code |-> <<>>]

\* run, lines 43-45 and 47-49: a check that fails ends the process by
\* sys.exit(1); after one that passes run goes on.
CheckGate(ok, then) ==
    IF ok THEN [pc |-> then, exit_code |-> <<>>]
    ELSE [pc |-> "exited", exit_code |-> <<1>>]

Outcome(ok) == IF ok THEN "passed" ELSE "failed"

\* run, lines 43-45: the Salesforce connectivity check.
SfTestConnection ==
    /\ pc = "startup"
    /\ \E ok \in BOOLEAN :
         /\ TestConnection(ok)
         /\ pc' = CheckGate(ok, "os_test").pc
         /\ exit_code' = CheckGate(ok, "os_test").exit_code
         /\ checks' = [checks EXCEPT !.sf = Outcome(ok)]
    /\ UNCHANGED <<cycles, last_poll_time, cycle, coverEnd, lastEnsure, lastBulk,
                   lastCall>>
    /\ UNCHANGED upstream
    /\ UNCHANGED setup

\* run, lines 47-49: the OpenSearch connectivity check.
OsTestConnection ==
    /\ pc = "os_test"
    /\ \E ok \in BOOLEAN :
         /\ pc' = CheckGate(ok, "cycle").pc
         /\ exit_code' = CheckGate(ok, "cycle").exit_code
         /\ checks' = [checks EXCEPT !.os = Outcome(ok)]
    /\ lastAuth' = <<>>
    /\ ops' = Traced(<<Op("os_get", clock, clock)>>)
    /\ UNCHANGED <<clock, cycles, last_poll_time, access_token,
                   token_expires_at, authRequests, cycle, coverEnd, lastEnsure,
                   lastBulk, lastCall>>
    /\ UNCHANGED upstream
    /\ UNCHANGED setup

\* run, line 53: one process_events call of the loop.
ProcessEvents ==
    /\ pc = "cycle"
    /\ cycles < MaxCycles
    /\ Cycle
    /\ cycles' = cycles + 1
    /\ pc' = IF Raised(cycle') THEN "backoff" ELSE "sleep"
    /\ UNCHANGED exit_code

\* time.sleep(seconds) returns seconds later, and a stall later still.
SleepFor(seconds, stalls) ==
    /\ cycles < MaxCycles
    /\ \E stall \in stalls : clock' = clock + Seconds(seconds) + stall
    /\ pc' = "cycle"
    /\ lastAuth' = <<>>
    /\ ops' = Traced(<<Op("sleep", clock, clock')>>)
    /\ UNCHANGED <<exit_code, cycles, last_poll_time, access_token,
                   token_expires_at, authRequests, cycle, coverEnd, lastEnsure,
                   lastBulk, lastCall, checks>>
    /\ UNCHANGED upstream
    /\ UNCHANGED setup

\* run, line 54.
Sleep == pc = "sleep" /\ SleepFor(poll_interval_seconds, Stalls)

\* Lines 59-61 sleeping the poll interval, as line 54 does.
BackoffAsPollSleep == pc = "backoff" /\ SleepFor(poll_interval_seconds, {0})

\* run, lines 59-61.
Backoff == pc = "backoff" /\ SleepFor(BackoffSeconds, {0})

Next ==
    \/ Login
    \/ SfTestConnection
    \/ OsTestConnection
    \/ ProcessEvents
    \/ Sleep
    \/ Backoff

Spec == Init /\ [][Next]_vars

\* The process from its start in any environment, with any secret, up to
\* the end of its first cycle.
InitStartup ==
    /\ clock = StartClock
    /\ pc = "main"
    /\ exit_code = <<>>
    /\ access_token = <<>>
    /\ token_expires_at = <<>>
    /\ authRequests = 0
    /\ sfRecords = {}
    /\ osIndex = {}
    /\ latest = [id \in Ids |-> <<>>]
    /\ fetchCount = [id \in Ids |-> 0]
    /\ acked = {}
    /\ environ \in Environments
    /\ secretStore \in Secrets
    /\ config = <<>>
    /\ secretReads = 0
    /\ indexExists \in BOOLEAN
    /\ NotValidating
    /\ SingleCaller
    /\ Constructed(clock)
    /\ Untraced

NextStartup ==
    \/ Main
    \/ SfTestConnection
    \/ OsTestConnection
    \/ ProcessEvents

SpecStartup == InitStartup /\ [][NextStartup]_vars

\* The process followed from its start through its loop: in a working
\* installation or one that lacks a setting or its secret, with a login
\* record waiting upstream or none.
InitOrder ==
    /\ clock = StartClock
    /\ pc = "main"
    /\ exit_code = <<>>
    /\ access_token = <<>>
    /\ token_expires_at = <<>>
    /\ authRequests = 0
    /\ sfRecords \in {{}, {[Id |-> IdNames[1], LoginTime |-> StartClock - 1]}}
    /\ osIndex = {}
    /\ latest = [id \in Ids |-> <<>>]
    /\ fetchCount = [id \in Ids |-> 0]
    /\ acked = {}
    /\ environ \in {UsualEnviron,
                     [UsualEnviron EXCEPT !.OPENSEARCH_ENDPOINT = <<>>],
                     [UsualEnviron EXCEPT !.POLL_INTERVAL_SECONDS = <<"soon">>]}
    /\ secretStore \in {UsualSecret, [UsualSecret EXCEPT !.kind = "error"]}
    /\ config = <<>>
    /\ secretReads = 0
    /\ indexExists \in BOOLEAN
    /\ NotValidating
    /\ SingleCaller
    /\ Constructed(clock)
    /\ ops = <<Op("__main__", clock, clock)>>

NextOrder ==
    \/ Main
    \/ SfTestConnection
    \/ OsTestConnection
    \/ ProcessEvents
    \/ Sleep
    \/ Backoff

SpecOrder == InitOrder /\ [][NextOrder]_vars

\* The loop with an upstream in which no one logs in. The loop body is one
\* thread that does nothing but run: a step that can be taken is taken.
NextQuiet ==
    \/ SfTestConnection
    \/ OsTestConnection
    \/ ProcessEvents
    \/ Sleep
    \/ Backoff

SpecFair ==
    /\ Init
    /\ [][NextQuiet]_vars
    /\ WF_vars(ProcessEvents)
    /\ WF_vars(Sleep)
    /\ WF_vars(Backoff)

\* ------------------------------------------------------------- interrupts

\* What the process ends with when KeyboardInterrupt is raised at this
\* point of run. Lines 52-54 are inside the try of the loop: line 56 catches
\* it, the loop is left and the process ends normally. The startup checks
\* and the handler of lines 59-61 are not: the exception leaves run, passes
\* both except clauses of __main__ (it is no Exception), and the interpreter
\* ends with status 1 or kills itself with SIGINT (130), by its version.
InterruptExit(at) ==
    IF at \in {"cycle", "sleep"} THEN {<<0>>} ELSE {<<1>>, <<130>>}

\* SIGINT is delivered; a cycle it interrupts is one that has done nothing
\* yet.
Interrupt ==
    /\ pc \in {"startup", "os_test", "cycle", "sleep", "backoff"}
    /\ pc' = "interrupted"
    /\ exit_code' \in InterruptExit(pc)
    /\ lastAuth' = <<>>
    /\ ops' = <<>>
    /\ UNCHANGED <<clock, cycles, last_poll_time, access_token,
                   token_expires_at, authRequests, cycle, coverEnd, lastEnsure,
                   lastBulk, lastCall, checks>>
    /\ UNCHANGED upstream
    /\ UNCHANGED setup

NextSignals ==
    \/ Next
    \/ Interrupt

SpecSignals == Init /\ [][NextSignals]_vars

\* ------------------------------------------------- the methods called directly
\* The clients and the streamer are constructed and bulk_index_events or
\* process_events is called directly, as a test would call it. The upstream
\* holds up to MaxEvents records from the lookback window, the index may hold
\* documents that an earlier process indexed for the oldest of them, and the
\* Salesforce client may have authenticated before (test_connection).

UnitRecord(i) == [Id |-> IdNames[i], LoginTime |-> InitialWatermark(StartClock) + i - 1]

IndexedEarlier(n) ==
    {[_id |-> [auto |-> 0, key |-> IdNames[i]],
      _source |-> Stamp(UnitRecord(i), StartClock - 1)] : i \in 1..n}

\* When the earlier token exchange was made, if one was: so long ago that
\* its token is at its expiry now, or one tick later.
EarlierExchanges ==
    {<<>>, <<StartClock - TokenLifetime>>, <<StartClock - TokenLifetime + 1>>}

GrantedResponse == CHOOSE r \in TokenResponses : r.has_token /\ r.expires_in = 0

InitUnit ==
    /\ clock = StartClock
    /\ pc = "unit"
    /\ exit_code = <<>>
    /\ \E t0 \in EarlierExchanges :
          LET a == IF t0 = <<>>
                   THEN [access_token |-> <<>>, token_expires_at |-> <<>>]
                   ELSE authenticate(<<>>, <<>>, t0[1], GrantedResponse, 1)
          IN  /\ access_token = a.access_token
              /\ token_expires_at = a.token_expires_at
              /\ authRequests = Len(t0)
    /\ \E m \in 0..MaxEvents, n \in 0..MaxEvents :
          /\ n <= m
          /\ sfRecords = {UnitRecord(i) : i \in 1..m}
          /\ osIndex = IndexedEarlier(n)
          /\ latest = [id \in Ids |-> IF \E i \in 1..n : IdNames[i] = id
                                      THEN <<StartClock - 1>> ELSE <<>>]
          /\ fetchCount = [id \in Ids |-> IF \E i \in 1..n : IdNames[i] = id
                                          THEN 1 ELSE 0]
          /\ acked = {IdNames[i] : i \in 1..n}
    /\ Configured
    /\ indexExists \in BOOLEAN
    /\ NotValidating
    /\ SingleCaller
    /\ Constructed(clock)
    /\ Untraced

UnitCall ==
    /\ pc = "unit"
    /\ pc' = "done"
    /\ UNCHANGED <<exit_code, cycles>>

\* The batches a caller can pass: records of the upstream, in any order, the
\* same record more than once too.
Batches == UNION {[1..n -> sfRecords] : n \in 0..MaxBatch}

\* os_client.bulk_index_events(events)
UnitBulkIndexEvents ==
    /\ UnitCall
    /\ \E events \in Batches :
       \E objs \in Identities(events) :
       \E resp \in IF events = <<>> THEN {NoBulkResponse} ELSE BulkResponses,
          dS \in IF Len(events) > 1 THEN Latencies ELSE {0} :
       \E applied \in IF events = <<>> THEN {{}} ELSE AppliedSets(Len(events), resp) :
          LET b == bulk_index_events(events, objs, clock, dS, resp)
          IN  /\ IndexBatch(events, objs, clock, dS, resp, applied)
              /\ lastBulk' = <<[events |-> events, objs |-> objs,
                                at |-> clock, dS |-> dS,
                                requests |-> b.requests, resp |-> resp,
                                result |-> b.result, indexBefore |-> osIndex]>>
              /\ clock' = clock + Span(events, dS)
    /\ UNCHANGED <<last_poll_time, access_token, token_expires_at, authRequests,
                   cycle, coverEnd, lastEnsure, sfRecords, fetchCount, lastCall,
                   checks>>
    /\ UNCHANGED setup
    /\ lastAuth' = <<>>
    /\ ops' = <<>>

\* streamer.process_events()
UnitProcessEvents ==
    /\ UnitCall
    /\ Cycle

\* sf_client.ensure_authenticated(), up to MaxCalls times in a row with
\* less than a tick, or a tick, between one call and the next.
UnitEnsureAuthenticated ==
    /\ pc \in {"unit", "ensured"}
    /\ EnsureCalls < MaxCalls
    /\ pc' = "ensured"
    /\ LET valid == is_token_valid(access_token, token_expires_at, clock)
       IN  \E aresp \in IF valid THEN {NoTokenResponse} ELSE TokenResponses,
              dA \in IF valid THEN {0} ELSE Latencies,
              idle \in Latencies :
              LET ens == ensure_authenticated(access_token, token_expires_at,
                                              clock, aresp, dA, authRequests + 1)
              IN  /\ Ensured(ens, aresp)
                  /\ clock' = clock + ens.took + idle
    /\ ops' = <<>>
    /\ UNCHANGED <<exit_code, cycles, last_poll_time, cycle, coverEnd, lastBulk,
                   lastCall, checks>>
    /\ UNCHANGED upstream
    /\ UNCHANGED setup

\* sf_client.authenticate()
UnitAuthenticate ==
    /\ UnitCall
    /\ \E resp \in TokenAnswers, dA \in Latencies :
          LET a == authenticate(access_token, token_expires_at, clock + dA, resp,
                                authRequests + 1)
          IN  /\ clock' = clock + dA
              /\ access_token' = a.access_token
              /\ token_expires_at' = a.token_expires_at
              /\ authRequests' = authRequests + 1
              /\ lastAuth' = IF a.raised THEN <<>>
                             ELSE <<[time |-> clock + dA, token |-> authRequests + 1,
                                     expires_in |-> resp.expires_in]>>
              /\ lastCall' = Called("authenticate", resp, 1, a.raised, 0, 0)
    /\ ops' = <<>>
    /\ UNCHANGED <<last_poll_time, cycle, coverEnd, lastEnsure, lastBulk, checks>>
    /\ UNCHANGED upstream
    /\ UNCHANGED setup

\* sf_client.get_login_events(sf_start, sf_end) for the window from the
\* watermark to now; the answer can be any of QueryAnswers.
UnitGetLoginEvents ==
    /\ UnitCall
    /\ LET valid == is_token_valid(access_token, token_expires_at, clock)
           matching == {r \in sfRecords :
                           SoqlMatches(r, strftime(last_poll_time), strftime(clock))}
       IN  \E aresp \in IF valid THEN {NoTokenResponse} ELSE TokenResponses,
              dA \in IF valid THEN {0} ELSE Latencies :
           LET ens == ensure_authenticated(access_token, token_expires_at, clock,
                                           aresp, dA, authRequests + 1)
           IN  \E qresp \in IF ens.raised THEN {NoQueryResponse} ELSE QueryAnswers,
                  dQ \in IF ens.raised THEN {0} ELSE Latencies :
               \E records \in IF ens.raised \/ QueryResult(qresp, <<>>).raised
                              THEN {<<>>} ELSE OrderByLoginTime(matching) :
               LET q == IF ens.raised THEN [raised |-> TRUE, events |-> <<>>]
                        ELSE QueryResult(qresp, records)
               IN  /\ Ensured(ens, aresp)
                   /\ clock' = clock + ens.took + dQ
                   /\ fetchCount' = [id \in Ids |-> fetchCount[id] +
                         Cardinality({i \in 1..Len(q.events) : q.events[i].Id = id})]
                   /\ lastCall' = Called("get_login_events", qresp,
                                         IF ens.raised THEN 0 ELSE 1, q.raised,
                                         Len(q.events), Cardinality(matching))
    /\ ops' = <<>>
    /\ UNCHANGED <<last_poll_time, cycle, coverEnd, lastBulk, checks, sfRecords,
                   osIndex, latest, acked>>
    /\ UNCHANGED setup

\* How many OpenSearchClient objects have been constructed, and what the
\* latest construction logged about its PUT.
Constructions == IF pc = "indexer" THEN lastCall[1].nth ELSE 0
LoggedBefore == IF pc = "indexer" THEN lastCall[1].log ELSE "none"

\* OpenSearchClient(config), up to MaxCalls times in a row: each
\* construction checks for the index and creates it when it is missing.
UnitOpenSearchClient ==
    /\ pc \in {"unit", "indexer"}
    /\ Constructions < MaxCalls
    /\ \E head \in HeadResponses(indexExists) :
       \E put \in IF ~head.transport /\ head.status = 404
                   THEN PutResponses ELSE {NoPutResponse} :
       LET o == OpenSearchClient(config[1], head, put)
       IN  \E after \in IF Len(o.requests) = 2 THEN IndexAfterPut(put)
                         ELSE {indexExists} :
           /\ indexExists' = after
           /\ config' = <<o.config>>
           /\ lastCall' = <<[method |-> "OpenSearchClient",
                             nth |-> Constructions + 1,
                             head |-> head, put |-> put,
                             requests |-> o.requests, raised |-> o.raised,
                             log |-> o.log, existed |-> indexExists,
                             before |-> LoggedBefore]>>
    /\ pc' = "indexer"
    /\ lastAuth' = <<>>
    /\ ops' = <<>>
    /\ UNCHANGED <<clock, exit_code, cycles, last_poll_time, access_token,
                   token_expires_at, authRequests, cycle, coverEnd, lastEnsure,
                   lastBulk, checks, environ, secretStore, argument, validated,
                   secretReads, callers>>
    /\ UNCHANGED upstream

NextUnit ==
    \/ UnitOpenSearchClient
    \/ UnitBulkIndexEvents
    \/ UnitProcessEvents
    \/ UnitEnsureAuthenticated
    \/ UnitAuthenticate
    \/ UnitGetLoginEvents

SpecUnit == InitUnit /\ [][NextUnit]_vars

\* ------------------------------------- ensure_authenticated, called at once

\* How many threads call ensure_authenticated on the one client at once.
MaxThreads == 2
Threads == 1..MaxThreads

\* Line 75 with the test of the expiry left out: only an absent token is
\* replaced.
RefreshWhenAbsent(tok, exp, now) == tok = <<>>

\* ensure_authenticated, line 75: whether the caller goes on to authenticate.
NeedsRefresh(tok, exp, now) == ~is_token_valid(tok, exp, now)

\* A caller that has not entered the method.
Entering == [pc |-> "call", tok |-> <<>>, exp |-> <<>>, now |-> 0, sent |-> 0]

\* The client is shared by MaxThreads callers, its token absent, at its
\* expiry, or good for one more tick.
InitThreads ==
    /\ clock = StartClock
    /\ pc = "threads"
    /\ exit_code = <<>>
    /\ \E t0 \in EarlierExchanges :
          LET a == IF t0 = <<>>
                   THEN [access_token |-> <<>>, token_expires_at |-> <<>>]
                   ELSE authenticate(<<>>, <<>>, t0[1], GrantedResponse, 1)
          IN  /\ access_token = a.access_token
              /\ token_expires_at = a.token_expires_at
              /\ authRequests = Len(t0)
    /\ sfRecords = {}
    /\ osIndex = {}
    /\ latest = [id \in Ids |-> <<>>]
    /\ fetchCount = [id \in Ids |-> 0]
    /\ acked = {}
    /\ Configured
    /\ indexExists = TRUE
    /\ NotValidating
    /\ Constructed(clock)
    /\ Untraced
    /\ callers = [t \in Threads |-> Entering]

\* What a step of a caller leaves alone.
ThreadFrame ==
    UNCHANGED <<pc, exit_code, cycles, last_poll_time, cycle, coverEnd,
                lastEnsure, lastAuth, lastBulk, lastCall, checks, environ,
                secretStore, config, indexExists, argument, validated,
                secretReads, ops, upstream>>

\* Line 75: caller t reads the token and its expiry and compares with the
\* clock. No lock is taken: the method has none.
ThreadCheck(t) ==
    /\ pc = "threads"
    /\ callers[t].pc = "call"
    /\ callers' = [callers EXCEPT ![t] =
                      [pc |-> IF NeedsRefresh(access_token, token_expires_at, clock)
                              THEN "refresh" ELSE "returned",
                       tok |-> access_token, exp |-> token_expires_at,
                       now |-> clock, sent |-> 0]]
    /\ UNCHANGED <<clock, access_token, token_expires_at, authRequests>>
    /\ ThreadFrame

\* Lines 76 and 46: caller t, having found the token unusable, sends the
\* token request; sent is this request's number.
ThreadSend(t) ==
    /\ pc = "threads"
    /\ callers[t].pc = "refresh"
    /\ authRequests' = authRequests + 1
    /\ callers' = [callers EXCEPT ![t].pc = "posting",
                                  ![t].sent = authRequests + 1]
    /\ UNCHANGED <<clock, access_token, token_expires_at>>
    /\ ThreadFrame

\* Lines 52-65: the answer to caller t's request arrives dA later; a good
\* one is stored on the client, whatever another caller has stored meanwhile.
ThreadReceive(t) ==
    /\ pc = "threads"
    /\ callers[t].pc = "posting"
    /\ \E resp \in TokenResponses, dA \in Latencies :
          LET a == authenticate(access_token, token_expires_at, clock + dA,
                                resp, callers[t].sent)
          IN  /\ clock' = clock + dA
              /\ access_token' = a.access_token
              /\ token_expires_at' = a.token_expires_at
              /\ callers' = [callers EXCEPT ![t].pc =
                                IF a.raised THEN "raised" ELSE "returned"]
    /\ UNCHANGED authRequests
    /\ ThreadFrame

NextThreads ==
    \/ \E t \in Threads : ThreadCheck(t)
    \/ \E t \in Threads : ThreadSend(t)
    \/ \E t \in Threads : ThreadReceive(t)

SpecThreads == InitThreads /\ [][NextThreads]_vars

\* ------------------------------------------- setup_tools.utils.validators

\* A str is the sequence of its characters.
Strings(chars, n) == UNION {[1..k -> chars] : k \in 0..n}

\* Python values as arguments: None, an int or a str.
None == [type |-> "NoneType", int |-> 0, str |-> <<>>]
PyIntOf(n) == [type |-> "int", int |-> n, str |-> <<>>]
PyStrOf(s) == [type |-> "str", int |-> 0, str |-> s]

RECURSIVE LStrip(_)
LStrip(s) == IF s # <<>> /\ s[1] = " " THEN LStrip(Tail(s)) ELSE s

RECURSIVE RStrip(_)
RStrip(s) ==
    IF s # <<>> /\ s[Len(s)] = " " THEN RStrip(SubSeq(s, 1, Len(s) - 1)) ELSE s

\* str.strip()
Strip(s) == RStrip(LStrip(s))

DigitChars == <<"0", "1", "2", "3", "4", "5", "6", "7", "8", "9">>
IsDigit(c) == \E i \in 1..Len(DigitChars) : DigitChars[i] = c
DigitValue(c) == (CHOOSE i \in 1..Len(DigitChars) : DigitChars[i] = c) - 1

RECURSIVE DecimalValue(_)
DecimalValue(ds) ==
    IF ds = <<>> THEN 0
    ELSE DecimalValue(SubSeq(ds, 1, Len(ds) - 1)) * 10 + DigitValue(ds[Len(ds)])

\* int(x) of Python: an int is itself; a str is stripped of whitespace and
\* is an optional sign and decimal digits, with single underscores between
\* digits allowed, or else ValueError; None is a TypeError.
int(x) ==
    IF x.type = "int" THEN [raised |-> FALSE, error |-> "", value |-> x.int]
    ELSE IF x.type = "NoneType"
    THEN [raised |-> TRUE, error |-> "TypeError", value |-> 0]
    ELSE LET t == Strip(x.str)
             signed == t # <<>> /\ t[1] \in {"+", "-"}
             body == IF signed THEN Tail(t) ELSE t
             literal ==
                /\ body # <<>>
                /\ IsDigit(body[1])
                /\ IsDigit(body[Len(body)])
                /\ \A i \in 1..Len(body) :
                      \/ IsDigit(body[i])
                      \/ body[i] = "_" /\ i > 1 /\ body[i - 1] # "_"
             magnitude == DecimalValue(SelectSeq(body, IsDigit))
         IN  IF literal
             THEN [raised |-> FALSE, error |-> "",
                   value |-> IF signed /\ t[1] = "-" THEN 0 - magnitude
                             ELSE magnitude]
             ELSE [raised |-> TRUE, error |-> "ValueError", value |-> 0]

\* What a validator does: it raises ValidationError with a message, or
\* returns a value.
Raise(message) ==
    [raised |-> TRUE, error |-> "ValidationError", message |-> message,
     value |-> <<>>]
Return(value) ==
    [raised |-> FALSE, error |-> "", message |-> "", value |-> <<value>>]

\* validate_duration_days without the check of lines 93-94.
ValidateDurationUncapped(duration) ==
    LET i == int(duration)
    IN  IF i.raised THEN Raise("Duration must be a valid integer")
        ELSE IF i.value < MinDurationDays
        THEN Raise("Duration must be at least 1 day")
        ELSE Return(PyIntOf(i.value))

\* Validators.validate_duration_days
validate_duration_days(duration) ==
    LET i == int(duration)
    IN  IF i.raised THEN Raise("Duration must be a valid integer")
        ELSE IF i.value < MinDurationDays
        THEN Raise("Duration must be at least 1 day")
        ELSE IF i.value > MaxDurationDays
        THEN Raise("Duration cannot exceed 30 days")
        ELSE Return(PyIntOf(i.value))

\* The characters of the strings given as a duration.
DurationChars == {"0", "1", "3", "-", "+", "_", " ", "a"}

\* The durations a caller gives: None, ints around the two limits, and
\* every string of up to MaxDigits of the characters above.
DurationArguments ==
    {None}
    \cup {PyIntOf(n) : n \in (MinDurationDays - 2)..(MinDurationDays + 1)}
    \cup {PyIntOf(n) : n \in (MaxDurationDays - 1)..(MaxDurationDays + 2)}
    \cup {PyStrOf(str) : str \in Strings(DurationChars, MaxDigits)}

\* The characters of the addresses given: a letter, the dot, the at sign
\* and the space.
EmailChars == {"u", ".", "@", " "}

\* The classes of EMAIL_REGEX, line 15, among these characters:
\* [A-Za-z], [A-Za-z0-9._%+-] and [A-Za-z0-9.-].
InLetters(c) == c \in {"u"}
InLocalClass(c) == InLetters(c) \/ c = "."
InDomainClass(c) == InLetters(c) \/ c = "."

\* EMAIL_REGEX.match(e): ^[A-Za-z0-9._%+-]+@[A-Za-z0-9.-]+\.[A-Za-z]{2,}$
\* with the at sign at position i and the dot before the last part at j.
EmailRegexMatch(e) ==
    \E i \in 2..Len(e) :
       /\ e[i] = "@"
       /\ \A k \in 1..(i - 1) : InLocalClass(e[k])
       /\ \E j \in (i + 2)..(Len(e) - 2) :
             /\ e[j] = "."
             /\ \A k \in (i + 1)..(j - 1) : InDomainClass(e[k])
             /\ \A k \in (j + 1)..Len(e) : InLetters(e[k])

\* Validators.validate_email
validate_email(email) ==
    IF email.type # "str" \/ email.str = <<>>
    THEN Raise("Email address is required")
    ELSE LET stripped == Strip(email.str)
         IN  IF ~EmailRegexMatch(stripped) THEN Raise("Invalid email format")
             ELSE Return(PyStrOf(stripped))

\* The addresses a caller gives: None, and every string of up to
\* MaxEmailLen of the characters above.
EmailArguments ==
    {None} \cup {PyStrOf(str) : str \in Strings(EmailChars, MaxEmailLen)}

\* The field names in play, and the values a dict has for them: no entry,
\* or '', a word, None, 0 or 1.
FieldNames == <<"field1", "field2", "field3", "field4">>
Fields == {FieldNames[i] : i \in 1..MaxFields}
NoEntry == [type |-> "absent", int |-> 0, str |-> <<>>]
FieldValues ==
    {PyStrOf(<<>>), PyStrOf(<<"v">>), None, PyIntOf(0), PyIntOf(1)}

\* not v, for these values: None, '' and 0 are false.
Not(v) ==
    \/ v.type = "NoneType"
    \/ v.type = "str" /\ v.str = <<>>
    \/ v.type = "int" /\ v.int = 0

\* ', '.join(names), as the pieces it is made of.
RECURSIVE JoinComma(_)
JoinComma(names) ==
    IF Len(names) <= 1 THEN names
    ELSE <<names[1], ", ">> \o JoinComma(Tail(names))

\* validate_required_fields with a message that names the first missing
\* field only.
ValidateRequiredNamingFirst(data, required_fields) ==
    LET IsMissing(field) == data[field] = NoEntry \/ Not(data[field])
        missing_fields == SelectSeq(required_fields, IsMissing)
    IN  IF missing_fields # <<>>
        THEN Raise(<<"Missing required fields: ", missing_fields[1]>>)
        ELSE Return(None)

\* Validators.validate_required_fields; the message is kept as its pieces.
validate_required_fields(data, required_fields) ==
    LET IsMissing(field) == data[field] = NoEntry \/ Not(data[field])
        missing_fields == SelectSeq(required_fields, IsMissing)
    IN  IF missing_fields # <<>>
        THEN Raise(<<"Missing required fields: ">> \o JoinComma(missing_fields))
        ELSE Return(None)

\* The dicts and the lists of required names a caller gives.
RequiredFieldsArguments ==
    [data : [Fields -> FieldValues \cup {NoEntry}],
     required_fields : UNION {[1..n -> Fields] : n \in 0..MaxFields}]

\* The calls of the validators that are made.
ValidatorCalls ==
    {[fn |-> "validate_duration_days", arg |-> a] : a \in DurationArguments}
    \cup {[fn |-> "validate_email", arg |-> a] : a \in EmailArguments}
    \cup {[fn |-> "validate_required_fields", arg |-> a] :
             a \in RequiredFieldsArguments}

InitValidators ==
    /\ clock = StartClock
    /\ pc = "validators"
    /\ exit_code = <<>>
    /\ access_token = <<>>
    /\ token_expires_at = <<>>
    /\ authRequests = 0
    /\ sfRecords = {}
    /\ osIndex = {}
    /\ latest = [id \in Ids |-> <<>>]
    /\ fetchCount = [id \in Ids |-> 0]
    /\ acked = {}
    /\ Installed
    /\ Constructed(clock)
    /\ Untraced
    /\ \E call \in ValidatorCalls : argument = <<call>>
    /\ validated = <<>>
    /\ SingleCaller

\* What a validator call leaves alone: the streamer.
ValidatorFrame ==
    /\ pc' = "validated"
    /\ UNCHANGED <<clock, exit_code, cycles, last_poll_time, access_token,
                   token_expires_at, authRequests, cycle, coverEnd, lastEnsure,
                   lastAuth, lastBulk, lastCall, checks, environ, secretStore,
                   config, indexExists, argument, secretReads, ops, callers>>
    /\ UNCHANGED upstream

ValidateDurationDays ==
    /\ pc = "validators"
    /\ argument[1].fn = "validate_duration_days"
    /\ validated' = <<validate_duration_days(argument[1].arg)>>
    /\ ValidatorFrame

ValidateEmail ==
    /\ pc = "validators"
    /\ argument[1].fn = "validate_email"
    /\ validated' = <<validate_email(argument[1].arg)>>
    /\ ValidatorFrame

ValidateRequiredFields ==
    /\ pc = "validators"
    /\ argument[1].fn = "validate_required_fields"
    /\ validated' = <<validate_required_fields(argument[1].arg.data,
                                               argument[1].arg.required_fields)>>
    /\ ValidatorFrame

NextValidators ==
    \/ ValidateDurationDays
    \/ ValidateEmail
    \/ ValidateRequiredFields

SpecValidators == InitValidators /\ [][NextValidators]_vars

\* ------------------------------------------------------------- properties

Completed(c) == c.outcome \in {"empty", "indexed", "index_failed"}

\* C1 (at-least-once delivery): every event a fetch has returned is in a
\* bulk request that bulk_index_events reported successful, or its LoginTime
\* is still at or after the watermark, so that a later window covers it; the
\* watermark never moves past a fetched event that was not indexed
\* successfully.
AtLeastOnceDelivery ==
    \A r \in sfRecords :
        fetchCount[r.Id] > 0 => (r.Id \in acked \/ r.LoginTime >= last_poll_time)

\* C2 (watermark monotonicity): the clock never going backwards,
\* last_poll_time never decreases, whether a cycle completes or fails.
WatermarkMonotone == [][last_poll_time' >= last_poll_time]_vars

\* A cycle completed after a failed one and moved the watermark forward.
WatermarkMovedAfterFailure ==
    /\ Completed(cycle)
    /\ cycle.retryOf # <<>>
    /\ last_poll_time > cycle.wmBefore

\* C3 (window tiling): the window a cycle sends is [watermark before the
\* cycle, end_time captured at its start), both truncated to whole seconds;
\* the window of a completed cycle starts where the window of the completed
\* cycle before it ended (the initial watermark for the first), so that the
\* windows of the completed cycles cover the time from the initial watermark
\* to the current watermark without gap or overlap: every record before the
\* end of the cover has been fetched exactly once, and no other record has.
WindowTiling ==
    /\ cycle.outcome # "none" =>
          /\ cycle.sf_start = strftime(cycle.wmBefore)
          /\ cycle.sf_end = strftime(cycle.end_time)
          /\ cycle.sf_start <= cycle.sf_end
    /\ Completed(cycle) =>
          /\ cycle.sf_start = cycle.coverBefore
          /\ coverEnd = cycle.sf_end
    /\ coverEnd = strftime(last_poll_time)
    /\ \A r \in sfRecords :
          /\ r.LoginTime >= strftime(InitialWatermark(StartClock))
          /\ fetchCount[r.Id] = IF r.LoginTime < coverEnd THEN 1 ELSE 0

\* Two cycles have completed, the second one fetching a record that was
\* created after the first.
SecondWindowFetched ==
    /\ Completed(cycle)
    /\ cycle.coverBefore > strftime(InitialWatermark(StartClock))
    /\ cycle.nEvents > 0

\* C4 (fetch fault): a cycle whose fetch fails, by the query or by the
\* authentication before it, leaves the watermark as it was and issues no
\* bulk request; the next cycle starts no sooner than the 30-second backoff
\* after the failed one ended, and its window has the same start.
FetchFault ==
    /\ Raised(cycle) =>
          /\ last_poll_time = cycle.wmBefore
          /\ cycle.bulkRequests = 0
          /\ cycle.nEvents = 0
    /\ cycle.retryOf # <<>> =>
          /\ cycle.end_time >= cycle.retryOf[1].finish + Seconds(BackoffSeconds)
          /\ cycle.sf_start = cycle.retryOf[1].sf_start

\* The query of a cycle failed, and the cycle after it fetched events.
RetriedAfterQueryFailure ==
    /\ cycle.retryOf # <<>>
    /\ cycle.retryOf[1].outcome = "query_failed"
    /\ cycle.queries = 1
    /\ cycle.nEvents > 0

\* The documents of the index that were made from the event with this id.
DocsOf(id) == {d \in osIndex : d._source.Id = id}

\* C5 (idempotent indexing): however often an event id has been indexed, in
\* one batch or in several, the index holds exactly one document for it, the
\* one with the @timestamp of its latest index operation; the index holds as
\* many documents as distinct ids have been indexed.
IdempotentIndexing ==
    /\ \A id \in Ids :
          IF latest[id] = <<>>
          THEN DocsOf(id) = {}
          ELSE /\ Cardinality(DocsOf(id)) = 1
               /\ \A d \in DocsOf(id) : d._source["@timestamp"] = latest[id][1]
    /\ Cardinality(osIndex) = Cardinality({id \in Ids : latest[id] # <<>>})

\* An event that an earlier batch indexed is indexed twice more by one
\* batch, as two dicts of which the second is stamped later than the first.
ReindexedTwiceInOneBatch ==
    /\ lastBulk # <<>>
    /\ Len(lastBulk[1].events) = 2
    /\ lastBulk[1].events[1].Id = lastBulk[1].events[2].Id
    /\ lastBulk[1].objs = <<1, 2>>
    /\ lastBulk[1].dS > 0
    /\ lastBulk[1].result
    /\ \E d \in lastBulk[1].indexBefore : d._source.Id = lastBulk[1].events[1].Id
    /\ latest[lastBulk[1].events[1].Id] = <<lastBulk[1].at + lastBulk[1].dS>>

\* C6 (token reuse and refresh boundary): an ensure_authenticated call sends
\* a token request exactly when the cached token is absent or the time is at
\* or past token_expires_at, and then exactly one; a call before
\* token_expires_at sends none and leaves the cached token in use.
TokenRefreshBoundary ==
    lastEnsure # <<>> =>
       LET e == lastEnsure[1]
       IN  /\ e.sent = IF e.tok = <<>> \/ e.exp = <<>> \/ e.now >= e.exp[1]
                       THEN 1 ELSE 0
           /\ e.sent = 0 => (~e.raised /\ e.after = e.tok /\ access_token = e.tok)
           /\ (e.sent = 1 /\ ~e.raised) => (e.after # e.tok /\ access_token = e.after)

\* A token was obtained before; one call reused it, and the next call, made
\* at the very tick of its expiry, sent the one request there has been since.
RefreshedAtExpiry ==
    /\ lastEnsure # <<>>
    /\ lastEnsure[1].nth = 2
    /\ lastEnsure[1].exp # <<>>
    /\ lastEnsure[1].now = lastEnsure[1].exp[1]
    /\ lastEnsure[1].sent = 1
    /\ authRequests = 2

\* C7 (fixed token lifetime): a successful authenticate stores the new
\* access_token and sets token_expires_at to 6300 seconds after the time of
\* the exchange, whatever expires_in the answer carries.
FixedTokenLifetime ==
    lastAuth # <<>> =>
       /\ access_token = <<lastAuth[1].token>>
       /\ token_expires_at = <<lastAuth[1].time + 6300 * TicksPerSecond>>

\* A cycle re-authenticated, and the answer carried an expires_in of 7200.
ReauthenticatedWithExpiresIn ==
    /\ lastAuth # <<>>
    /\ lastAuth[1].expires_in = 7200
    /\ cycles > 0

\* C8 (empty batch): bulk_index_events called with no events returns success
\* and sends no request, leaving the index alone; a cycle whose fetch
\* returns no events issues no bulk request.
EmptyBatchNoOp ==
    /\ (lastBulk # <<>> /\ lastBulk[1].events = <<>>) =>
          /\ lastBulk[1].result
          /\ lastBulk[1].requests = <<>>
          /\ osIndex = lastBulk[1].indexBefore
    /\ cycle.outcome = "empty" =>
          /\ cycle.nEvents = 0
          /\ cycle.bulkRequests = 0

\* bulk_index_events was called with no events on an index that holds
\* documents.
EmptyBatchIndexed ==
    /\ lastBulk # <<>>
    /\ lastBulk[1].events = <<>>
    /\ osIndex # {}

\* C9 (bulk payload): for a batch of k >= 1 events one request is sent, and
\* its body is 2k non-empty lines, each one JSON value, and a trailing
\* newline; line 2i-1 is the action descriptor naming the configured index
\* and the id of the i-th event, line 2i is the i-th event with the
\* @timestamp it was given during the call.
BulkPayloadWellFormed ==
    (lastBulk # <<>> /\ lastBulk[1].events # <<>>) =>
       LET b == lastBulk[1]
           k == Len(b.events)
           lines == IF Len(b.requests) = 1 THEN SplitLines(b.requests[1]) ELSE <<>>
       IN  /\ Len(b.requests) = 1
           /\ Len(lines) = 2 * k + 1
           /\ lines[2 * k + 1] = <<>>
           /\ \A j \in 1..(2 * k) : Len(lines[j]) = 1 /\ lines[j][1].tok = "json"
           /\ \A i \in 1..k :
                 /\ lines[2 * i - 1][1].obj =
                       [index |-> [_index |-> opensearch_index,
                                   _id |-> <<b.events[i].Id>>]]
                 /\ \E t \in b.at..(b.at + Span(b.events, b.dS)) :
                       lines[2 * i][1].obj = Stamp(b.events[i], t)

\* The batch E1, E2 under the default index: four lines, the first the
\* action for E1 and the third the action for E2.
BulkPayloadE1E2 ==
    /\ lastBulk # <<>>
    /\ Len(lastBulk[1].events) = 2
    /\ lastBulk[1].events[1].Id = "E1"
    /\ lastBulk[1].events[2].Id = "E2"
    /\ LET lines == SplitLines(lastBulk[1].requests[1])
       IN  /\ Len(lines) = 5
           /\ lines[1][1].obj =
                 [index |-> [_index |-> "salesforce-login-events", _id |-> <<"E1">>]]
           /\ lines[3][1].obj =
                 [index |-> [_index |-> "salesforce-login-events", _id |-> <<"E2">>]]
           /\ lines[5] = <<>>

\* C10 as stated (bulk response interpretation): bulk_index_events returns
\* success exactly when the response status is 2xx and its top-level errors
\* flag is not true.
BulkSuccessIffAny2xx ==
    (lastBulk # <<>> /\ lastBulk[1].events # <<>>) =>
       LET r == lastBulk[1].resp
       IN  lastBulk[1].result <=>
              (~r.transport /\ r.status >= 200 /\ r.status < 300 /\ ~r.errors)

\* C10 as amended: bulk_index_events returns success exactly when the
\* response status is 200, its body parses as JSON and its top-level errors
\* flag is not true; every other response and a request that got no
\* response give failure for the whole batch.
BulkSuccessIffExactly200 ==
    (lastBulk # <<>> /\ lastBulk[1].events # <<>>) =>
       LET r == lastBulk[1].resp
       IN  lastBulk[1].result <=>
              (~r.transport /\ r.status = 200 /\ r.json /\ ~r.errors)

\* A bulk request was answered 201 and the batch was reported failed.
Bulk201ReportedFailed ==
    /\ lastBulk # <<>>
    /\ lastBulk[1].events # <<>>
    /\ ~lastBulk[1].resp.transport
    /\ lastBulk[1].resp.status = 201
    /\ ~lastBulk[1].result

Is2xx(status) == status >= 200 /\ status < 300

\* C11 (fetch error contract): get_login_events sends one GET; it raises on
\* every answer whose status is not 2xx; and it returns an empty list only
\* when the upstream answered 2xx and no record matched the window.
FetchErrorContract ==
    (lastCall # <<>> /\ lastCall[1].method = "get_login_events") =>
       LET c == lastCall[1]
       IN  /\ c.requests <= 1
           /\ (c.requests = 1 /\ ~c.transport /\ ~Is2xx(c.status)) => c.raised
           /\ (c.requests = 1 /\ ~c.raised /\ c.returned = 0) =>
                 (~c.transport /\ Is2xx(c.status) /\ c.matching = 0)

\* C12 (authentication error contract): authenticate sends one POST; on every
\* answer whose status is not 2xx it raises and stores no token.
AuthenticationErrorContract ==
    (lastCall # <<>> /\ lastCall[1].method = "authenticate") =>
       LET c == lastCall[1]
       IN  /\ c.requests = 1
           /\ (~c.transport /\ ~Is2xx(c.status)) =>
                 (c.raised /\ access_token = c.tok /\ token_expires_at = c.exp)

\* C13 (failed authenticate is without effect): an authenticate call that
\* raises leaves access_token and token_expires_at as they were; one that
\* returns has replaced both, the token by the new one and the expiry by a
\* later one.
FailedAuthenticateKeepsToken ==
    (lastCall # <<>> /\ lastCall[1].method = "authenticate") =>
       LET c == lastCall[1]
       IN  IF c.raised
           THEN access_token = c.tok /\ token_expires_at = c.exp
           ELSE /\ access_token = <<authRequests>>
                /\ access_token # c.tok
                /\ token_expires_at # <<>>
                /\ token_expires_at # c.exp
                /\ c.exp # <<>> => token_expires_at[1] > c.exp[1]

\* The exchange was rejected with a 400 while a token that is still valid
\* was cached.
RejectedWithValidTokenCached ==
    /\ lastCall # <<>>
    /\ lastCall[1].method = "authenticate"
    /\ lastCall[1].raised
    /\ lastCall[1].status = 400
    /\ lastCall[1].tok # <<>>
    /\ is_token_valid(access_token, token_expires_at, clock)

\* C14 (interrupt handling): an interrupt delivered once the poll loop has
\* started, be it during a cycle, the poll-interval sleep or the backoff,
\* ends the process with exit code 0.
InterruptExitsCleanly ==
    (pc = "interrupted" /\ checks.os = "passed") => exit_code = <<0>>

\* C15 (retry policy): a cycle that raised leaves the process running, in
\* the backoff or before the next cycle; that cycle starts 30 seconds after
\* the failed one ended, not a poll interval after; and however many cycles
\* have failed in a row, another one is attempted.
RetryPolicy ==
    /\ [](Raised(cycle) => (pc \in {"backoff", "cycle"} /\ exit_code = <<>>))
    /\ [](cycle.retryOf # <<>> =>
            /\ cycle.end_time >= cycle.retryOf[1].finish + Seconds(BackoffSeconds)
            /\ cycle.end_time < cycle.retryOf[1].finish + Seconds(poll_interval_seconds))
    /\ \A n \in 1..(MaxCycles - 1) :
          (Raised(cycle) /\ cycles = n) ~> (cycles = n + 1)

\* Two cycles in a row have failed and the process is in its backoff.
FailedTwiceAndRunning ==
    /\ Raised(cycle)
    /\ cycle.retryOf # <<>>
    /\ pc = "backoff"
    /\ exit_code = <<>>

\* C16 (search-engine failures): when the bulk request of a cycle gets a
\* non-2xx answer or no answer, the cycle is aborted like one whose fetch
\* failed: process_events raises, which is what sends the loop to its
\* 30-second backoff, and the watermark stays, so that the same window is
\* retried.
BulkFailureRetried ==
    (/\ lastCall # <<>>
     /\ lastCall[1].method = "process_events"
     /\ lastCall[1].requests = 1
     /\ lastCall[1].transport \/ ~Is2xx(lastCall[1].status)) =>
       /\ Raised(cycle)
       /\ last_poll_time = cycle.wmBefore

\* C18 (startup fail-fast): run makes the Salesforce check and then the
\* search-engine check before the first cycle, and the loop is entered only
\* when both have passed; when either fails the process has ended with a
\* non-zero exit code, no query and no bulk request has been sent and none
\* will be.
StartupFailFast ==
    /\ checks.os # "none" => checks.sf = "passed"
    /\ (cycles > 0 \/ pc \in {"cycle", "sleep", "backoff"}) =>
          checks = [sf |-> "passed", os |-> "passed"]
    /\ (checks.sf = "failed" \/ checks.os = "failed") =>
          /\ pc = "exited"
          /\ exit_code # <<>>
          /\ exit_code[1] # 0
          /\ cycles = 0
          /\ cycle = NoCycle
          /\ lastBulk = <<>>
          /\ \A id \in Ids : fetchCount[id] = 0
          /\ osIndex = {}

\* The search-engine check has failed after the Salesforce check passed,
\* while a login record was waiting upstream.
ExitedWithRecordWaiting ==
    /\ checks = [sf |-> "passed", os |-> "failed"]
    /\ sfRecords # {}
    /\ pc = "exited"

\* C19 (ensure_index): constructing the indexer sends a HEAD for the index
\* and then the mapping PUT if and only if the HEAD was answered with 404;
\* for an index that exists no PUT is sent, whatever was done before; and a
\* PUT that the engine refuses is logged, nothing is raised and the
\* construction completes.
EnsureIndexContract ==
    (lastCall # <<>> /\ lastCall[1].method = "OpenSearchClient") =>
       LET c == lastCall[1]
           sentPut == Len(c.requests) = 2 /\ c.requests[2] = "PUT"
       IN  /\ c.requests[1] = "HEAD"
           /\ Len(c.requests) \in {1, 2}
           /\ sentPut <=> (~c.head.transport /\ c.head.status = 404)
           /\ c.existed => (~sentPut /\ indexExists)
           /\ (sentPut /\ ~c.put.transport /\ c.put.status # 200) =>
                 (~c.raised /\ c.log = "error")
           /\ c.raised <=> (c.head.transport \/ (sentPut /\ c.put.transport))

\* A first construction had its PUT refused and completed; the index was
\* there all the same, and the second construction sent its HEAD only.
ConstructedAgainAfterRefusedPut ==
    /\ lastCall # <<>>
    /\ lastCall[1].method = "OpenSearchClient"
    /\ lastCall[1].nth = 2
    /\ lastCall[1].before = "error"
    /\ lastCall[1].existed
    /\ lastCall[1].requests = <<"HEAD">>
    /\ ~lastCall[1].raised

\* A required environment variable is not set.
RequiredSettingAbsent ==
    \/ environ.OPENSEARCH_ENDPOINT = <<>>
    \/ environ.SECRETS_MANAGER_SECRET_ARN = <<>>
    \/ environ.SALESFORCE_INSTANCE_URL = <<>>

\* The secret cannot be read, or is not a JSON object with the keys
\* client_id, username and private_key.
SecretUnusable ==
    \/ secretStore.kind # "object"
    \/ secretStore.client_id = <<>>
    \/ secretStore.username = <<>>
    \/ secretStore.private_key = <<>>

\* C17 (configuration errors are fatal): when a required setting is absent,
\* the secret lookup fails or the secret is not JSON with client_id,
\* username and private_key, the process ends with exit code 1 as soon as
\* it has tried to load its configuration: no Config object exists, no
\* connectivity check is made, no request is sent to Salesforce and the
\* poll loop is never started.
ConfigurationErrorsFatal ==
    (pc # "main" /\ (RequiredSettingAbsent \/ SecretUnusable)) =>
       /\ pc = "exited"
       /\ exit_code = <<1>>
       /\ config = <<>>
       /\ checks = [sf |-> "none", os |-> "none"]
       /\ authRequests = 0
       /\ cycles = 0
       /\ cycle = NoCycle

\* The process has ended because the secret, in an environment that has
\* every required setting, lacks its private_key.
ExitedForSecretWithoutKey ==
    /\ pc = "exited"
    /\ ~RequiredSettingAbsent
    /\ secretStore.kind = "object"
    /\ secretStore.client_id = <<"v">>
    /\ secretStore.username = <<"v">>
    /\ secretStore.private_key = <<>>

\* C20 (configuration invariant): once the configuration has been loaded,
\* the instance URL, the search endpoint, the index name, the client_id,
\* the username and the private_key are all non-empty.
ConfigFieldsNonEmpty ==
    config # <<>> =>
       /\ config[1].salesforce_instance_url # ""
       /\ config[1].opensearch_endpoint # ""
       /\ config[1].opensearch_index # ""
       /\ config[1].salesforce_client_id # ""
       /\ config[1].salesforce_username # ""
       /\ config[1].salesforce_private_key # ""

\* run has been entered: the checks are being made or the loop is running.
Running == pc \in {"startup", "os_test", "cycle", "sleep", "backoff"}

\* C21 (poll interval): whenever the process has got past its startup,
\* poll_interval_seconds is a positive integer, and it is the default of 60
\* when POLL_INTERVAL_SECONDS is not set; a value of zero, a negative value
\* or one that is no integer never gives a running process.
PollIntervalPositive ==
    (Running /\ config # <<>>) =>
       /\ config[1].poll_interval_seconds > 0
       /\ environ.POLL_INTERVAL_SECONDS = <<>> =>
             config[1].poll_interval_seconds = 60

\* The configuration as Config() returned it to LoginEventStreamer.__init__.
Loaded == Config(environ, secretStore, TRUE).config

\* C22 (configuration is immutable): once Config() has returned the
\* configuration, no step changes a field of it: what the constructor
\* leaves is what was loaded, and it stays that for good.
ConfigImmutable ==
    [][/\ (config = <<>> /\ config' # <<>>) => config' = Loaded
       /\ config # <<>> => config' = config]_vars

\* The call of validator fn has been made.
Validated(fn) == validated # <<>> /\ argument[1].fn = fn

\* The call with argument arg raised ValidationError.
Rejects(arg) == argument[1].arg = arg => validated[1].error = "ValidationError"

\* The call with argument arg returned value.
Gives(arg, value) ==
    argument[1].arg = arg => (~validated[1].raised /\ validated[1].value = <<value>>)

\* C23 (validate_duration_days): an int, or a str that int() reads as one,
\* is accepted exactly when its value is within 1..30, and that value is
\* returned as an int; everything else raises ValidationError, among it 0,
\* 31, -1, "0", "31", a word, the empty string and None.
DurationDaysContract ==
    Validated("validate_duration_days") =>
       LET arg == argument[1].arg
           res == validated[1]
           numeric == ~int(arg).raised
           n == int(arg).value
       IN  /\ res.raised <=> ~(numeric /\ n \in 1..30)
           /\ res.raised => (res.error = "ValidationError" /\ res.value = <<>>)
           /\ ~res.raised => res.value = <<PyIntOf(n)>>
           /\ Rejects(PyIntOf(0)) /\ Rejects(PyIntOf(31)) /\ Rejects(PyIntOf(-1))
           /\ Rejects(PyStrOf(<<"0">>)) /\ Rejects(PyStrOf(<<"3", "1">>))
           /\ Rejects(PyStrOf(<<"-", "1">>)) /\ Rejects(PyStrOf(<<"a">>))
           /\ Rejects(PyStrOf(<<>>)) /\ Rejects(None)
           /\ Gives(PyIntOf(1), PyIntOf(1)) /\ Gives(PyIntOf(30), PyIntOf(30))
           /\ Gives(PyStrOf(<<"1">>), PyIntOf(1))
           /\ Gives(PyStrOf(<<"3", "0">>), PyIntOf(30))

\* The string "30" was given and the int 30 came back.
DurationStringThirtyAccepted ==
    /\ Validated("validate_duration_days")
    /\ argument[1].arg = PyStrOf(<<"3", "0">>)
    /\ validated[1].value = <<PyIntOf(30)>>

\* Where the first at sign of address e is, 0 when it has none.
AtSign(e) ==
    IF \E i \in 1..Len(e) : e[i] = "@"
    THEN CHOOSE i \in 1..Len(e) : e[i] = "@" /\ \A k \in 1..(i - 1) : e[k] # "@"
    ELSE 0

\* The address is malformed in one of the ways named: it is empty, has no
\* at sign, has nothing before it or nothing after it, has a dot right
\* after it, or has two dots in a row before it.
Malformed(e) ==
    \/ e = <<>>
    \/ AtSign(e) = 0
    \/ AtSign(e) = 1
    \/ AtSign(e) = Len(e)
    \/ e[AtSign(e) + 1] = "."
    \/ \E k \in 1..(AtSign(e) - 2) : e[k] = "." /\ e[k + 1] = "."

\* C24 (validate_email): an address that is empty, has no at sign, an
\* empty local part, an empty domain, a domain that starts with a dot or a
\* local part with two dots in a row raises ValidationError; an address
\* that is accepted is returned unchanged.
EmailContract ==
    (Validated("validate_email") /\ argument[1].arg.type = "str") =>
       /\ Malformed(argument[1].arg.str) =>
             validated[1].error = "ValidationError"
       /\ ~validated[1].raised => validated[1].value = <<argument[1].arg>>

\* The required fields of the call made that lack(data[f]) holds of.
Lacking(lack(_)) ==
    LET a == argument[1].arg
    IN  {a.required_fields[i] : i \in 1..Len(a.required_fields)} \cap
        {f \in Fields : lack(a.data[f])}

\* The message of the error raised has the name f in it.
Names(f) == \E i \in 1..Len(validated[1].message) : validated[1].message[i] = f

\* The call raised ValidationError exactly when lacking is not empty, with
\* a message that names every field of it, and returned None otherwise.
RaisedExactlyFor(lacking) ==
    /\ validated[1].raised <=> lacking # {}
    /\ validated[1].raised =>
          /\ validated[1].error = "ValidationError"
          /\ \A f \in lacking : Names(f)
    /\ ~validated[1].raised => validated[1].value = <<None>>

\* The value is no entry, or an empty one: None or the empty string.
IsEmpty(v) == v = NoEntry \/ v = None \/ v = PyStrOf(<<>>)

\* The value is no entry, or one that Python takes as false.
IsFalse(v) == v = NoEntry \/ v = None \/ v = PyStrOf(<<>>) \/ v = PyIntOf(0)

WatermarkUnconditional ==
    Completed(cycle) => last_poll_time = cycle.end_time

\* A cycle fetched events and failed to index them, and the watermark is
\* the time it captured at its start, which is before the time it ended.
AdvancedAfterIndexFailure ==
    /\ cycle.outcome = "index_failed"
    /\ last_poll_time = cycle.end_time
    /\ cycle.end_time > cycle.wmBefore
    /\ cycle.end_time < cycle.finish

\* The names of what the latest step did, in order.
OpNames == [i \in 1..Len(ops) |-> ops[i].op]

\* Where an operation of a cycle comes in the order the claim gives.
CycleOrder == <<"token_check", "token_post", "query_get", "bulk_post", "watermark">>
Place(name) == CHOOSE k \in 1..Len(CycleOrder) : CycleOrder[k] = name

\* The latest step was a process_events call.
CycleStep == Len(ops) > 0 /\ ops[1].op = "token_check"

ReadUnusable(c) == c.tok = <<>> \/ c.exp = <<>> \/ c.now >= c.exp[1]
Refreshing(c) == c.pc = "refresh" \/ c.sent > 0
CheckThenRefreshNotAtomic ==
    pc = "threads" =>
        /\ \A t \in Threads :
              callers[t].pc # "call" =>
                  (Refreshing(callers[t]) <=> ReadUnusable(callers[t]))
        /\ \A t, u \in Threads :
              (t # u /\ callers[t].sent > 0) => callers[t].sent # callers[u].sent
        /\ \A t \in Threads : callers[t].sent <= authRequests
        /\ \A n \in 1..authRequests :
              n > authRequests - Cardinality({t \in Threads : callers[t].sent > 0})
                  => \E t \in Threads : callers[t].sent = n

\* Two callers have each a token request in flight for the one expired
\* token both read: neither has stored a token yet.
DuplicateConcurrentRefresh ==
    /\ pc = "threads"
    /\ \E t, u \in Threads :
          /\ t # u
          /\ callers[t].pc = "posting"
          /\ callers[u].pc = "posting"
          /\ callers[t].tok # <<>>
          /\ callers[t].tok = callers[u].tok
          /\ callers[t].exp = callers[u].exp
          /\ access_token = callers[t].tok
          /\ token_expires_at = callers[t].exp


\* C29. The clock never going backwards, every get_login_events call of
\* process_events is passed a start that is not after its end; the first
\* cycle's start is 5 minutes before the time the streamer was constructed,
\* so the first window spans at least the lookback and is not empty, as
\* datetimes and as the formatted strings of the query.
FirstCycle == cycles = 1 /\ cycle.outcome # "none"
FetchWindowOrdered ==
    /\ cycle.outcome # "none" => cycle.wmBefore <= cycle.end_time
    /\ FirstCycle =>
          /\ cycle.wmBefore = StartClock - Lookback
          /\ cycle.end_time - cycle.wmBefore >= Lookback
          /\ cycle.sf_start < cycle.sf_end

\* The first cycle of a process followed from its start has fetched the
\* login record that was created just before the process started.
FirstWindowFetchedWaitingRecord ==
    /\ FirstCycle
    /\ ops # <<>>
    /\ Completed(cycle)
    /\ cycle.nEvents = 1


\* C30. A get_login_events call that sends its query GET sends it with the
\* client's token after ensure_authenticated: the token that was cached and
\* passed the validity check of that call (present, and the clock before
\* its expiry), or the one the call's own token request has just obtained.
\* A call whose token request fails sends no query; no query carries an
\* absent token or one that was at or past its expiry at the check.
Fetched == pc = "done" /\ lastCall # <<>> /\ lastCall[1].method = "get_login_events"
PassedCheck(e) ==
    /\ e.sent = 0
    /\ e.tok # <<>>
    /\ e.exp # <<>>
    /\ e.now < e.exp[1]
    /\ access_token = e.tok
    /\ token_expires_at = e.exp
FreshlyObtained(e) ==
    /\ e.sent = 1
    /\ ~e.raised
    /\ (e.tok = <<>> \/ e.exp = <<>> \/ e.now >= e.exp[1])
    /\ access_token = <<authRequests>>
    /\ access_token # e.tok
====
